---- MODULE Spec2Model ----
(***************************************************************************)
(* Scene parsing and quantified-utterance generation of                    *)
(* image_generation/render_images.py (parse_scene and its callers).        *)
(*                                                                         *)
(* Python strings are TLA+ strings; Len, SubSeq and \o act on them as on   *)
(* sequences of characters.  Python lists indexed by object id (objects,   *)
(* relationships[d], objects_structs) are functions on 0..n-1; all other   *)
(* lists are sequences; dicts are functions whose DOMAIN is the key set.   *)
(***************************************************************************)
EXTENDS Integers, Sequences, FiniteSets, TLC

VARIABLES
  objects,          \* scene_dict["objects"]: id -> [size, color, material, shape]
  relationships,    \* scene_dict["relationships"]: direction -> id -> list of ids
  img_template,     \* the image name parse_scene is called with
  pc,               \* position inside parse_scene
  image,            \* the dictionaries image_2ids, image_some2ids and image_all
  objects_structs,  \* id -> per-object struct (names, children, descriptors)
  utterances,       \* list of generated utterance strings
  provenance,       \* for utterances[k]: the loop variables that appended it
  intrinsic,        \* contents of <img>_intrinsic.json, or NoIntrinsic
  files,            \* utterance -> contents of ../output/utterances/<utterance>.txt
  history,          \* the parse_scene calls that returned, in order
  adhoc,            \* the locals of calculate_ad_hoc_matrix
  render            \* the Blender scene and the locals of the rendering functions

vars == <<objects, relationships, img_template, pc, image, objects_structs,
          utterances, provenance, intrinsic, files, history, adhoc, render>>

\* description -> list of object ids (extensionOf)
image_2ids == image.ids

\* description -> list of object ids, for the proper-subset extensions
image_some2ids == image.some2ids

\* list of the descriptions true of every object
image_all == image.all

-----------------------------------------------------------------------------
(* Bounds of the model.                                                    *)

MaxObjects == 3

-----------------------------------------------------------------------------
(* Python string and list primitives.                                      *)

\* the set of elements of a list
Range(s) == {s[k] : k \in DOMAIN s}

\* str.startswith at offset k (1-based)
MatchAt(s, k, sub) ==
  /\ k + Len(sub) - 1 <= Len(s)
  /\ SubSeq(s, k, k + Len(sub) - 1) = sub

\* `sub in s` for strings: substring containment
StrContains(s, sub) == \E k \in 1..(Len(s) + 1) : MatchAt(s, k, sub)

RECURSIVE Join(_, _)
\* sep.join(list)
Join(sep, list) ==
  IF Len(list) = 0 THEN ""
  ELSE IF Len(list) = 1 THEN list[1]
  ELSE list[1] \o sep \o Join(sep, Tail(list))

\* s.find(sep, b) as a 1-based position, 0 when sep does not occur from b on
Find(s, sep, b) ==
  LET hits == {k \in b..Len(s) : MatchAt(s, k, sep)}
  IN IF hits = {} THEN 0 ELSE CHOOSE k \in hits : \A m \in hits : k <= m

RECURSIVE SplitFrom(_, _, _)
\* s.split(sep): the pieces of s from position b on, scanning left to right
SplitFrom(s, sep, b) ==
  LET k == Find(s, sep, b)
  IN IF k = 0 THEN <<SubSeq(s, b, Len(s))>>
     ELSE <<SubSeq(s, b, k - 1)>> \o SplitFrom(s, sep, k + Len(sep))

Split(s, sep) == SplitFrom(s, sep, 1)

\* s.replace(old, new)
Replace(s, old, new) == Join(new, Split(s, old))

\* list[-1]
Last(list) == list[Len(list)]

EmptyDict == [x \in {} |-> <<>>]

RECURSIVE SortedList(_)
\* sorted(list(set))
SortedList(S) ==
  IF S = {} THEN <<>>
  ELSE LET m == CHOOSE x \in S : \A y \in S : x <= y
       IN <<m>> \o SortedList(S \ {m})

RECURSIVE ConcatRange(_, _, _)
\* lists[lo] + ... + lists[hi]
ConcatRange(lists, lo, hi) ==
  IF lo > hi THEN <<>>
  ELSE IF lo = hi THEN lists[lo]
  ELSE LET mid == (lo + hi) \div 2
       IN ConcatRange(lists, lo, mid) \o ConcatRange(lists, mid + 1, hi)

\* concatenation of the first n lists of a list of lists
Concat(lists, n) == ConcatRange(lists, 1, n)

-----------------------------------------------------------------------------
(* The scene.                                                              *)

Directions == <<"left", "right", "front", "behind">>

len_objects == Cardinality(DOMAIN objects)

Ids == 0..(len_objects - 1)

\* objd = [obj['size'], obj['color'], obj['material'], obj['shape']]
ObjdList(obj) == <<obj.size, obj.color, obj.material, obj.shape>>

objd_lists == [i \in Ids |-> ObjdList(objects[i])]

objds == [i \in Ids |-> Join(" ", objd_lists[i])]

\* itertools.combinations(range(len(objd_list)+1), 2), in generation order
IndexPairs(n) ==
  Concat([a \in 1..n |-> [b \in 1..(n - a + 1) |-> <<a - 1, a - 1 + b>>]], n)

\* objd_list[comb_i:comb_j]
Slice(list, a, b) == SubSeq(list, a + 1, b)

\* as CombLists, but over every combination of `len` attributes, adjacent or not
CombLists_Combinations(objd_list, len) ==
  LET n == Len(objd_list)
  IN IF len = 1 THEN [k \in 1..n |-> <<objd_list[k]>>]
     ELSE IF len = n THEN <<objd_list>>
     ELSE IF len = 2
     THEN Concat([a \in 1..n |-> [b \in 1..(n - a) |->
                    <<objd_list[a], objd_list[a + b]>>]], n)
     ELSE IF len = n - 1
     THEN [k \in 1..n |->
             SelectSeq(objd_list, LAMBDA v : v # objd_list[n + 1 - k])]
     ELSE <<>>

\* the slices of length `len`, in generation order (comb1d_lists, comb2d_lists, ...)
CombLists(objd_list, len) ==
  LET pairs  == IndexPairs(Len(objd_list))
      slices == [k \in DOMAIN pairs |-> Slice(objd_list, pairs[k][1], pairs[k][2])]
  IN SelectSeq(slices, LAMBDA w : Len(w) = len)

-----------------------------------------------------------------------------
(* compute_all_relationships: the relation lists of a rendered scene.      *)

\* lengths are counted in units of 0.05: the `eps=0.2` of the signature
eps == 4

\* as DirectionVec, with right and front not negated
DirectionVec_NotNegated ==
  [left |-> <<-1, 0>>, right |-> <<-1, 0>>, front |-> <<0, 1>>, behind |-> <<0, 1>>]

\* scene_struct['directions'] restricted to the ground plane, for a camera
\* that looks along the second axis: right = -left, front = -behind
DirectionVec ==
  [left |-> <<-1, 0>>, right |-> <<1, 0>>, front |-> <<0, -1>>, behind |-> <<0, 1>>]

Dot(coords1, coords2, direction_vec) ==
  (coords2[1] - coords1[1]) * direction_vec[1]
    + (coords2[2] - coords1[2]) * direction_vec[2]

\* output[rel][i]: sorted list of the j with dot > eps
compute_all_relationships(coords) ==
  [name \in Range(Directions) |->
     [i \in DOMAIN coords |->
        SortedList({j \in DOMAIN coords :
                      j # i /\ Dot(coords[i], coords[j], DirectionVec[name]) > eps})]]

-----------------------------------------------------------------------------
(* The scenes parse_scene is run on.                                       *)

Obj(size, color, material, shape) ==
  [size |-> size, color |-> color, material |-> material, shape |-> shape]

\* object kinds of the enumerated scenes: alike but for the colour
ObjectKinds == {Obj("small", c, "rubber", "cube") : c \in {"red", "blue"}}

\* kinds whose colour names contain one another ("red" in "darkred")
SubstringKinds == {Obj("small", c, "rubber", "cube") : c \in {"red", "darkred"}}

\* ground-plane grid points objects are placed on
Positions == {<<0, 0>>, <<5, 0>>, <<0, 5>>}

\* the three objects of the specification's concrete scenarios
ScenarioObjects ==
  [i \in 0..2 |->
     CASE i = 0 -> Obj("small", "red", "rubber", "cube")
       [] i = 1 -> Obj("large", "red", "rubber", "cube")
       [] i = 2 -> Obj("small", "blue", "metal", "sphere")]

\* four objects, two of each colour: no attribute value is held by one object only
PairedObjects ==
  {f \in [0..3 -> ObjectKinds] :
     Cardinality({i \in 0..3 : f[i].color = "red"}) = 2}

NoIntrinsic == [written |-> FALSE, some |-> {}, all |-> <<>>]

EmptyFiles == [u \in {} |-> ""]

\* calculate_ad_hoc_matrix has not been called
NoAdHoc == [called |-> FALSE]

\* no rendering function has been called
NoRender == [called |-> FALSE]

Init ==
  /\ \/ \E n \in 0..MaxObjects : objects \in [0..(n - 1) -> ObjectKinds]
     \/ objects = ScenarioObjects
     \/ objects \in [0..1 -> SubstringKinds]
     \/ objects \in PairedObjects
  /\ \E coords \in [DOMAIN objects -> Positions] :
        relationships = compute_all_relationships(coords)
  /\ img_template = "img0.png"
  /\ pc = "index"
  /\ image = [some2ids |-> EmptyDict, all |-> <<>>, ids |-> EmptyDict]
  /\ objects_structs = <<>>
  /\ utterances = <<>>
  /\ provenance = <<>>
  /\ intrinsic = NoIntrinsic
  /\ files = EmptyFiles
  /\ history = <<>>
  /\ adhoc = NoAdHoc
  /\ render = NoRender

-----------------------------------------------------------------------------
(* parse_scene, 1: image-level description (AttributeIndex).               *)

\* the object ids 0..n-1 in enumeration order
IdList == [k \in 1..len_objects |-> k - 1]

\* `if attr in objd` on the joined description string
SingleMatch(attr, objd) == StrContains(objd, attr)

\* as CombMatch, with the set difference taken the other way round
CombMatch_Reversed(new_objd_list, comb_set, rest) ==
  Cardinality(comb_set \ Range(new_objd_list)) = rest

\* `len(set(new_objd_list) - comb_set) == rest`
CombMatch(new_objd_list, comb_set, rest) ==
  Cardinality(Range(new_objd_list) \ comb_set) = rest

\* `new_objd_list == objd_list`
FullMatch(new_objd_list, objd_list) == new_objd_list = objd_list

\* the (key, obj_inds) pairs object i stores, in the order it stores them
IndexEntries(i) ==
  LET objd_list == objd_lists[i]
      single(attr) ==
        [key  |-> attr,
         inds |-> SelectSeq(IdList, LAMBDA j : SingleMatch(attr, objds[j]))]
      comb(w) ==
        [key  |-> Join(" ", w),
         inds |-> SelectSeq(IdList,
                    LAMBDA j : CombMatch(objd_lists[j], Range(w), 4 - Len(w)))]
      full ==
        [key  |-> objds[i],
         inds |-> SelectSeq(IdList, LAMBDA j : FullMatch(objd_lists[j], objd_list))]
      comb2d_lists == CombLists(objd_list, 2)
      comb3d_lists == CombLists(objd_list, 3)
  IN [k \in DOMAIN objd_list |-> single(objd_list[k])]
       \o [k \in DOMAIN comb2d_lists |-> comb(comb2d_lists[k])]
       \o [k \in DOMAIN comb3d_lists |-> comb(comb3d_lists[k])]
       \o <<full>>

\* everything the loop over the objects stores, in order
AllIndexEntries ==
  Concat([k \in 1..len_objects |-> IndexEntries(k - 1)], len_objects)

\* as IsSome, but for more than one object
IsSome_Several(obj_inds) == Len(obj_inds) > 1

\* `if count != len_objects`: the description is not true of every object
IsSome(obj_inds) == Len(obj_inds) # len_objects

\* a dict after the assignments d[e.key] = e.inds of the entries, in order:
\* every key holds what was assigned to it last
Assigned(entries) ==
  [key \in {entries[k].key : k \in DOMAIN entries} |->
     LET ks   == {k \in DOMAIN entries : entries[k].key = key}
         last == CHOOSE k \in ks : \A m \in ks : m <= k
     IN entries[last].inds]

\* `if count != len_objects: image_some2ids[key] = obj_inds
\*  else: image_all.append(key)`; `image_2ids[key] = obj_inds`
AttributeIndexResult ==
  LET entries == AllIndexEntries
      somes   == SelectSeq(entries, LAMBDA e : IsSome(e.inds))
      alls    == SelectSeq(entries, LAMBDA e : ~IsSome(e.inds))
  IN [some2ids |-> Assigned(somes),
      all      |-> [k \in DOMAIN alls |-> alls[k].key],
      ids      |-> Assigned(entries)]

AttributeIndex ==
  /\ pc = "index"
  /\ image' = AttributeIndexResult
  /\ pc' = "structs"
  /\ UNCHANGED <<objects, relationships, img_template, objects_structs,
                 utterances, provenance, intrinsic, files, history, adhoc, render>>

-----------------------------------------------------------------------------
(* parse_scene, 2: per-object structs, primary names, related objects.     *)

\* as PrimaryName, without the name for a single object
PrimaryName_NoUnique(comb1d) ==
  IF comb1d \in DOMAIN image_some2ids
  THEN "some " \o comb1d
  ELSE "all " \o comb1d

\* the quantifier-qualified primary name of a one-attribute description
PrimaryName(comb1d) ==
  IF comb1d \in DOMAIN image_some2ids
  THEN IF Len(image_some2ids[comb1d]) = 1
       THEN "Exactly one all " \o comb1d
       ELSE "some " \o comb1d
  ELSE "all " \o comb1d

\* as Comb1dNames, for the windows of two attributes (comb2d_lists)
Comb1dNames_Comb2d(objd_list) ==
  LET w == CombLists(objd_list, 2) IN [k \in DOMAIN w |-> Join(" ", w[k])]

\* comb1d_lists as joined strings
Comb1dNames(objd_list) ==
  LET w == CombLists(objd_list, 1) IN [k \in DOMAIN w |-> Join(" ", w[k])]

\* available_primary_names of object i
LeftNames(i) ==
  LET comb1d_lists == Comb1dNames(objd_lists[i])
  IN <<"some objects">> \o [k \in DOMAIN comb1d_lists |-> PrimaryName(comb1d_lists[k])]

\* list[k] is defined: -len(list) <= k < len(list)
IndexInRange(n, k) == -n <= k /\ k < n

\* list[k] for a list of n items held as a function on 0..n-1: a negative
\* index counts from the end
ListItem(list, n, k) == IF k < 0 THEN list[k + n] ELSE list[k]

\* some objd_lists[rel_obj_ind] of the loop raises IndexError
RaisesIndexError ==
  \E n \in DOMAIN Directions : \E i \in Ids :
    \E rel_obj_ind \in Range(relationships[Directions[n]][i]) :
      ~IndexInRange(len_objects, rel_obj_ind)

\* full_current_objd[d + '_child']: the attribute lists of the related objects
Children(d, i) ==
  LET rel == relationships[d][i]
  IN [k \in DOMAIN rel |-> ListItem(objd_lists, len_objects, rel[k])]

ObjectStruct(i) ==
  [obj          |-> objds[i],
   id           |-> i,
   left_names   |-> LeftNames(i),
   left_child   |-> Children("left", i),
   right_child  |-> Children("right", i),
   front_child  |-> Children("front", i),
   behind_child |-> Children("behind", i),
   left |-> <<>>, right |-> <<>>, front |-> <<>>, behind |-> <<>>]

BuildStructs ==
  /\ pc = "structs"
  /\ RaisesIndexError = FALSE
  /\ objects_structs' = [i \in Ids |-> ObjectStruct(i)]
  /\ pc' = "right_names"
  /\ UNCHANGED <<objects, relationships, img_template, image,
                 utterances, provenance, intrinsic, files, history, adhoc, render>>

\* the IndexError leaves parse_scene before anything is written
RaiseIndexError ==
  /\ pc = "structs"
  /\ RaisesIndexError = TRUE
  /\ pc' = "raised"
  /\ UNCHANGED <<objects, relationships, img_template, image, objects_structs,
                 utterances, provenance, intrinsic, files, history, adhoc, render>>

-----------------------------------------------------------------------------
(* parse_scene, 3: secondary descriptors per direction.                    *)

\* as SecondaryName, but quantified over the whole scene, not over object_ids
SecondaryName_Scene(comb1d, object_ids) ==
  LET all_ids == image_2ids[comb1d]
  IN IF Len(all_ids) = 1
     THEN "Exactly one all " \o comb1d
     ELSE IF Len(all_ids) # len_objects
          THEN "some " \o comb1d
          ELSE "all " \o comb1d

\* the quantifier-qualified name of comb1d among the objects object_ids
SecondaryName(comb1d, object_ids) ==
  LET all_ids == image_2ids[comb1d]
  IN IF Cardinality(Range(all_ids) \ Range(object_ids)) > 0
     THEN "some " \o comb1d
     ELSE IF Len(all_ids) = 1
          THEN "Exactly one all " \o comb1d
          ELSE "all " \o comb1d

\* object_struct[d] of object i
Descriptors(d, i) ==
  LET children == objects_structs[i][d \o "_child"]
      of(objectd_list) ==
        LET comb1d_lists == Comb1dNames(objectd_list)
        IN [k \in DOMAIN comb1d_lists |->
              SecondaryName(comb1d_lists[k], relationships[d][i])]
  IN Concat([k \in DOMAIN children |-> of(children[k])], Len(children))

AdjustRightNames ==
  /\ pc = "right_names"
  /\ objects_structs' =
       [i \in Ids |->
          [objects_structs[i] EXCEPT !.left   = Descriptors("left", i),
                                     !.right  = Descriptors("right", i),
                                     !.front  = Descriptors("front", i),
                                     !.behind = Descriptors("behind", i)]]
  /\ pc' = "primary_names"
  /\ UNCHANGED <<objects, relationships, img_template, image,
                 utterances, provenance, intrinsic, files, history, adhoc, render>>

-----------------------------------------------------------------------------
(* parse_scene, 4: the utterances.                                         *)

\* the relation looked up from the secondary object's side
Opposite(d) ==
  CASE d = "left" -> "right" [] d = "right" -> "left"
    [] d = "front" -> "behind" [] d = "behind" -> "front"

\* sentence form of the `some` branch for the descriptors of direction d
SomePreposition(d) ==
  CASE d = "left" -> " on the right of " [] d = "right" -> " on the left of "
    [] d = "front" -> " behind " [] d = "behind" -> " in front of "

\* sentence form of the `all` branch for the descriptors of direction d
AllPreposition(d) ==
  CASE d = "left" -> "on the right of" [] d = "right" -> "on the left of"
    [] d = "front" -> "behind" [] d = "behind" -> "on the front of"

Item(text, i, name, name_, d, descrip) ==
  [text |-> text, id |-> i, name |-> name, primary |-> name_, dir |-> d,
   descrip |-> descrip]

\* as AllDescripCount, with a some_flag that is never set
AllDescripCount_NoFlag(primary_object_ids, d, second_object_ids) ==
  LET related(sid) == Range(relationships[Opposite(d)][sid])
      missing == {sid \in Range(second_object_ids) :
                    Cardinality(primary_object_ids \ related(sid)) > 0}
  IN [some_flag |-> FALSE,
      count_ids |-> UNION {primary_object_ids
                             \ (primary_object_ids \ related(sid)) : sid \in missing}]

\* some_flag and count_ids when the descriptor carries "all"
AllDescripCount(primary_object_ids, d, second_object_ids) ==
  LET related(sid) == Range(relationships[Opposite(d)][sid])
      missing == {sid \in Range(second_object_ids) :
                    Cardinality(primary_object_ids \ related(sid)) > 0}
  IN [some_flag |-> missing # {},
      count_ids |-> UNION {primary_object_ids
                             \ (primary_object_ids \ related(sid)) : sid \in missing}]

\* as SomeDescripCount, with a some_flag that is never set
SomeDescripCount_NoFlag(primary_object_ids, d, second_object_ids) ==
  LET hit(pid) == Range(relationships[d][pid]) \cap Range(second_object_ids) # {}
  IN [some_flag |-> FALSE,
      count_ids |-> {pid \in primary_object_ids : hit(pid)}]

\* some_flag and count_ids when the descriptor carries "some"
SomeDescripCount(primary_object_ids, d, second_object_ids) ==
  LET hit(pid) == Range(relationships[d][pid]) \cap Range(second_object_ids) # {}
  IN [some_flag |-> \E pid \in primary_object_ids : ~hit(pid),
      count_ids |-> {pid \in primary_object_ids : hit(pid)}]

\* the description a secondary descriptor quantifies, as the `some` branch
\* extracts it
ObjectUnderDiscuss(descrip) ==
  IF "all" \in Range(Split(descrip, " ")) THEN <<Last(Split(descrip, "all "))>>
  ELSE IF StrContains(descrip, "some") THEN <<Last(Split(descrip, "some "))>>
  ELSE <<>>

\* body of `for descrip in object_struct[d]` for a primary name carrying "some"
SomeNameItem(i, name, name_, d, descrip) ==
  LET primary_object_ids == Range(image_2ids[name_])
      is_all == "all" \in Range(Split(descrip, " "))
      oud    == ObjectUnderDiscuss(descrip)
      c == IF oud = <<>> THEN [some_flag |-> FALSE, count_ids |-> {}]
           ELSE IF is_all
           THEN AllDescripCount(primary_object_ids, d, image_2ids[oud[1]])
           ELSE SomeDescripCount(primary_object_ids, d, image_2ids[oud[1]])
      base == (IF c.some_flag THEN "some " ELSE "all ")
                \o name_ \o SomePreposition(d) \o descrip
      text == IF Cardinality(c.count_ids) = 1 THEN "Exactly one " \o base ELSE base
  IN <<Item(text, i, name, name_, d, descrip)>>

\* body of `for descrip_ in object_struct[d]` for any other primary name
AllNameItem(i, name, name_, d, descrip_) ==
  LET descrip == Replace(Replace(Replace(descrip_, "some ", ""),
                                 "Exactly one all ", ""), "all ", "")
  IN IF descrip = name_ THEN <<>>
     ELSE <<Item("some " \o name_ \o AllPreposition(d) \o descrip,
                 i, name, name_, d, descrip_)>>

\* `if "some" in name`
IsSomeName(name) == StrContains(name, "some")

\* as StripName, taking the quantifier without the blank after it
StripName_NoBlank(name) ==
  IF IsSomeName(name) THEN Replace(name, "some", "") ELSE Replace(name, "all", "")

\* name_: the primary name without its quantifier
StripName(name) ==
  IF IsSomeName(name) THEN Replace(name, "some ", "") ELSE Replace(name, "all ", "")

\* body of `for name in primary_names` of object i
NameItems(i, name) ==
  LET is_some == IsSomeName(name)
      name_ == StripName(name)
      of(d) ==
        LET ds == objects_structs[i][d]
        IN Concat([k \in DOMAIN ds |->
                     IF is_some THEN SomeNameItem(i, name, name_, d, ds[k])
                                ELSE AllNameItem(i, name, name_, d, ds[k])],
                  Len(ds))
  IN IF name_ = "objects" THEN <<>>
     ELSE Concat([k \in DOMAIN Directions |-> of(Directions[k])], Len(Directions))

\* everything the loop over objects_structs appends, in order
UtteranceItems ==
  Concat([k \in 1..len_objects |->
            LET names == objects_structs[k - 1].left_names
            IN Concat([m \in DOMAIN names |-> NameItems(k - 1, names[m])],
                      Len(names))],
         len_objects)

\* some image_2ids[...] lookup of the loop raises KeyError
RaisesKeyError ==
  \E i \in Ids : \E name \in Range(objects_structs[i].left_names) :
    LET name_ == StripName(name)
    IN /\ name_ # "objects"
       /\ \/ name_ \notin DOMAIN image_2ids
          \/ /\ IsSomeName(name)
             /\ \E k \in DOMAIN Directions :
                  \E descrip \in Range(objects_structs[i][Directions[k]]) :
                    LET oud == ObjectUnderDiscuss(descrip)
                    IN oud # <<>> /\ oud[1] \notin DOMAIN image_2ids

\* as AdjustPrimaryNames, with a list of utterances that outlives the call
AdjustPrimaryNames_Accumulated ==
  /\ pc = "primary_names"
  /\ RaisesKeyError = FALSE
  /\ provenance' = provenance \o UtteranceItems
  /\ utterances' = [k \in DOMAIN provenance' |-> provenance'[k].text]
  /\ pc' = "output"
  /\ UNCHANGED <<objects, relationships, img_template, image,
                 objects_structs, intrinsic, files, history, adhoc, render>>

AdjustPrimaryNames ==
  /\ pc = "primary_names"
  /\ RaisesKeyError = FALSE
  /\ provenance' = UtteranceItems
  /\ utterances' = [k \in DOMAIN provenance' |-> provenance'[k].text]
  /\ pc' = "output"
  /\ UNCHANGED <<objects, relationships, img_template, image,
                 objects_structs, intrinsic, files, history, adhoc, render>>

\* the KeyError leaves parse_scene before anything is written
RaiseKeyError ==
  /\ pc = "primary_names"
  /\ RaisesKeyError = TRUE
  /\ pc' = "raised"
  /\ UNCHANGED <<objects, relationships, img_template, image,
                 objects_structs, utterances, provenance, intrinsic, files, history, adhoc, render>>

-----------------------------------------------------------------------------
(* parse_scene, 5: the intrinsic file and the utterance files.             *)

\* as Visits, for a loop over the list itself
Visits_List(list, u) == Cardinality({k \in DOMAIN list : list[k] = u})

\* `for utterance in list(set(utterances))`: how often the loop comes by u
Visits(list, u) == IF u \in Range(list) THEN 1 ELSE 0

\* as Appended, for a file opened with "w"
Appended_Truncated(contents, text) == text

\* `with open(path, "a") as f: f.write(text)`; a missing file is created empty
Appended(contents, text) == contents \o text

RECURSIVE AppendedTimes(_, _, _)
\* the file after n passes of the loop body
AppendedTimes(contents, text, n) ==
  IF n = 0 THEN contents ELSE Appended(AppendedTimes(contents, text, n - 1), text)

\* what a returned call leaves in the log
Returned ==
  [img |-> img_template, objects |-> objects, relationships |-> relationships,
   utterances |-> Range(utterances)]

WriteOutput ==
  /\ pc = "output"
  /\ intrinsic' = [written |-> TRUE, some |-> DOMAIN image_some2ids, all |-> image_all]
  /\ files' = [u \in (DOMAIN files) \cup Range(utterances) |->
                 AppendedTimes(IF u \in DOMAIN files THEN files[u] ELSE "",
                               img_template, Visits(utterances, u))]
  /\ history' = Append(history, Returned)
  /\ pc' = "done"
  /\ UNCHANGED <<objects, relationships, img_template, image,
                 objects_structs, utterances, provenance, adhoc, render>>

-----------------------------------------------------------------------------

Next ==
  \/ AttributeIndex
  \/ BuildStructs
  \/ AdjustRightNames
  \/ AdjustPrimaryNames
  \/ RaiseKeyError
  \/ WriteOutput

Spec == Init /\ [][Next]_vars

-----------------------------------------------------------------------------
(* notmain: parse_scene called on one rendered scene after the other.      *)

\* `for i in range(5)`: the scenes of one run
NumScenes == 5

\* number of scenes of a run that the model follows
MaxScenes == 3

\* '%d' % i for one decimal digit
DecimalDigit(i) == <<"0", "1", "2", "3", "4", "5", "6", "7", "8", "9">>[i + 1]

\* img_template % (i + args.start_idx), with template 'img%d.png' and start_idx 0
ImageName(i) == "img" \o DecimalDigit(i) \o ".png"

\* ground-plane points of the scenes of a run
ScenePositions == {<<0, 0>>, <<5, 0>>}

\* the scenes render_scene may have written: up to two objects in a row
SceneFamily ==
  UNION {{[objects |-> objs, relationships |-> compute_all_relationships(coords)] :
            coords \in [DOMAIN objs -> ScenePositions]} :
         objs \in UNION {[0..(n - 1) -> ObjectKinds] : n \in 0..2}}

InitScenes ==
  /\ \E scene_dict \in SceneFamily :
       /\ objects = scene_dict.objects
       /\ relationships = scene_dict.relationships
  /\ img_template = ImageName(0)
  /\ pc = "index"
  /\ image = [some2ids |-> EmptyDict, all |-> <<>>, ids |-> EmptyDict]
  /\ objects_structs = <<>>
  /\ utterances = <<>>
  /\ provenance = <<>>
  /\ intrinsic = NoIntrinsic
  /\ files = EmptyFiles
  /\ history = <<>>
  /\ adhoc = NoAdHoc
  /\ render = NoRender

\* `for i, scene_dict in enumerate(all_scenes): parse_scene(scene_dict, ...)`:
\* the next call, once the previous one has returned; the locals of the
\* previous call are dead and every phase assigns its own afresh
NextScene ==
  /\ pc = "done"
  /\ Len(history) < NumScenes
  /\ Len(history) < MaxScenes
  /\ \E scene_dict \in SceneFamily :
       /\ objects' = scene_dict.objects
       /\ relationships' = scene_dict.relationships
  /\ img_template' = ImageName(Len(history))
  /\ intrinsic' = NoIntrinsic
  /\ pc' = "index"
  /\ UNCHANGED <<image, objects_structs, utterances, provenance, files,
                 history, adhoc, render>>

NextScenes == Next \/ NextScene

SpecScenes == InitScenes /\ [][NextScenes]_vars

-----------------------------------------------------------------------------
(* parse_scene on scene files whose relation lists are arbitrary.          *)

\* the relation lists a scene file may hold for a scene of n objects: empty,
\* one id that is an index, one that is not, or both objects of a pair
RelLists(n) ==
  {<<>>} \cup {<<j>> : j \in (-(n + 1))..n} \cup (IF n = 2 THEN {<<0, 1>>} ELSE {})

\* relation lists filled in for one direction
RelationFamily(n) ==
  UNION {{[name \in Range(Directions) |->
             IF name = d THEN rel ELSE [i \in 0..(n - 1) |-> <<>>]] :
            rel \in [0..(n - 1) -> RelLists(n)]} :
         d \in Range(Directions)}

InitRelations ==
  /\ \E n \in 0..2 :
       /\ objects \in [0..(n - 1) -> ObjectKinds]
       /\ relationships \in RelationFamily(n)
  /\ img_template = ImageName(0)
  /\ pc = "index"
  /\ image = [some2ids |-> EmptyDict, all |-> <<>>, ids |-> EmptyDict]
  /\ objects_structs = <<>>
  /\ utterances = <<>>
  /\ provenance = <<>>
  /\ intrinsic = NoIntrinsic
  /\ files = EmptyFiles
  /\ history = <<>>
  /\ adhoc = NoAdHoc
  /\ render = NoRender

NextRelations == Next \/ RaiseIndexError

SpecRelations == InitRelations /\ [][NextRelations]_vars

-----------------------------------------------------------------------------
(* calculate_ad_hoc_matrix (ReferentDisambiguator).                        *)
(* A score is a fraction <<numerator, denominator>>: count / (sum + 1e-3)  *)
(* is <<1000 * count, 1000 * sum + 1>>.                                    *)

\* number of objects of the scenes calculate_ad_hoc_matrix is followed on
MaxAdHocObjects == 5

Less(a, b) == a[1] * b[2] < b[1] * a[2]

Same(a, b) == a[1] * b[2] = b[1] * a[2]

\* the `0.9` of the candidate test
Threshold == <<9, 10>>

\* the attribute values of an object in the order they are counted
AdHocValues(obj) == <<obj.shape, obj.size, obj.material, obj.color>>

RECURSIVE FirstSeen(_, _)
\* the distinct items among the first n of a list, in order of first occurrence
FirstSeen(list, n) ==
  IF n = 0 THEN <<>>
  ELSE LET seen == FirstSeen(list, n - 1)
       IN IF list[n] \in Range(seen) THEN seen ELSE Append(seen, list[n])

\* list(utterance_lists.keys()): the values in insertion order
AdHocKeys ==
  LET values == Concat([k \in 1..len_objects |-> AdHocValues(objects[k - 1])],
                       len_objects)
  IN FirstSeen(values, Len(values))

\* utterance_lists after the counting loop: value -> object -> count
CountedLists ==
  [v \in Range(AdHocKeys) |->
     [i \in Ids |->
        Cardinality({a \in 1..4 : AdHocValues(objects[i])[a] = v})]]

RECURSIVE Sum(_, _)
\* np.sum over the first n + 1 entries of a vector on 0..n
Sum(vec, n) == IF n < 0 THEN 0 ELSE vec[n] + Sum(vec, n - 1)

\* utterance_lists[key] / (np.sum(utterance_lists[key]) + 1e-3)
Normalized(vec) ==
  LET total == Sum(vec, len_objects - 1)
  IN [i \in Ids |-> <<1000 * vec[i], 1000 * total + 1>>]

\* full_matrix[:, i]: the scores of object i, by key index
Column(i) == [k \in DOMAIN adhoc.keys |-> adhoc.full_matrix[k][i]]

\* full_matrix[:, i].max()
ColumnMax(i) ==
  LET col == Column(i)
  IN col[CHOOSE k \in DOMAIN col : \A m \in DOMAIN col : ~Less(col[k], col[m])]

\* np.where(full_matrix[:, i] == full_matrix[:, i].max())[0]
Where(i) == {k \in DOMAIN adhoc.keys : Same(Column(i)[k], ColumnMax(i))}

\* np.argmax(full_matrix[:, i]): the first index of the maximum
Argmax(i) == CHOOSE k \in Where(i) : \A m \in Where(i) : k <= m

\* as IsCandidate, without the test against 0.9
IsCandidate_NoThreshold(i) == Cardinality(Where(i)) = 1

\* `len(np.where(...)[0]) == 1 and full_matrix[:, i].max() < 0.9`
IsCandidate(i) == Cardinality(Where(i)) = 1 /\ Less(ColumnMax(i), Threshold)

\* `elif len(np.where(...)[0]) != 1`
IsTied(i) == ~IsCandidate(i) /\ Cardinality(Where(i)) # 1

\* temp_keys: the keys that attain the maximum, by key index
TiedKeys(i) ==
  LET temp == SortedList(Where(i)) IN [k \in DOMAIN temp |-> adhoc.keys[temp[k]]]

\* as CountedOnce, for any number of objects
CountedOnce_Any(utterance_count, key) == TRUE

\* `len(utterance_count[key]) == 1`
CountedOnce(utterance_count, key) == Len(utterance_count[key]) = 1

\* as NotRepeated, without the exclusion list
NotRepeated_Ignored(repeat_obj_pairs, key) == TRUE

\* `key not in repeat_obj_pairs`
NotRepeated(repeat_obj_pairs, key) == key \notin Range(repeat_obj_pairs)

\* utterance_count: value -> the positions in utterance_obj_pairs that hold it
UtteranceCount(utterance_obj_pairs) ==
  [happy \in {utterance_obj_pairs[j][2] : j \in DOMAIN utterance_obj_pairs} |->
     SortedList({j \in DOMAIN utterance_obj_pairs :
                   utterance_obj_pairs[j][2] = happy})]

\* the locals at entry of calculate_ad_hoc_matrix
AdHocEntered ==
  [called |-> TRUE, utterance_lists |-> <<>>, keys |-> <<>>, full_matrix |-> <<>>,
   utterance_obj_pairs |-> <<>>, repeat_obj_pairs |-> <<>>,
   full_utterance_obj_pairs |-> <<>>, utterance_count |-> <<>>,
   updated_utterance_obj_pairs |-> <<>>,
   returned |-> [none |-> TRUE, value |-> <<>>]]

\* object kinds of the scenes of calculate_ad_hoc_matrix: two colours, two shapes
AdHocKinds ==
  {Obj("small", c, "rubber", s) : c \in {"red", "blue"}, s \in {"cube", "sphere"}}

InitAdHoc ==
  /\ \E n \in 0..MaxAdHocObjects : objects \in [0..(n - 1) -> AdHocKinds]
  /\ relationships = [name \in Range(Directions) |-> [i \in DOMAIN objects |-> <<>>]]
  /\ img_template = ImageName(0)
  /\ pc = "adhoc_count"
  /\ image = [some2ids |-> EmptyDict, all |-> <<>>, ids |-> EmptyDict]
  /\ objects_structs = <<>>
  /\ utterances = <<>>
  /\ provenance = <<>>
  /\ intrinsic = NoIntrinsic
  /\ files = EmptyFiles
  /\ history = <<>>
  /\ adhoc = AdHocEntered
  /\ render = NoRender

\* the counting loop over the objects
AdHocCount ==
  /\ pc = "adhoc_count"
  /\ adhoc' = [adhoc EXCEPT !.utterance_lists = CountedLists]
  /\ pc' = "adhoc_matrix"
  /\ UNCHANGED <<objects, relationships, img_template, image, objects_structs,
                 utterances, provenance, intrinsic, files, history, render>>

\* `# process the column`: normalise every value's vector, fill full_matrix
AdHocMatrix ==
  /\ pc = "adhoc_matrix"
  /\ adhoc' =
       [adhoc EXCEPT
          !.keys = AdHocKeys,
          !.utterance_lists =
             [v \in DOMAIN adhoc.utterance_lists |->
                Normalized(adhoc.utterance_lists[v])],
          !.full_matrix =
             [k \in DOMAIN AdHocKeys |->
                Normalized(adhoc.utterance_lists[AdHocKeys[k]])]]
  /\ pc' = "adhoc_pairs"
  /\ UNCHANGED <<objects, relationships, img_template, image, objects_structs,
                 utterances, provenance, intrinsic, files, history, render>>

\* full_matrix[:, i].max() raises ValueError on a column without entries
RaisesValueError == \E i \in Ids : DOMAIN adhoc.keys = {}

\* the loop over the objects that collects candidate pairs and tied values
AdHocPairs ==
  /\ pc = "adhoc_pairs"
  /\ RaisesValueError = FALSE
  /\ adhoc' =
       [adhoc EXCEPT
          !.utterance_obj_pairs =
             LET with == SelectSeq(IdList, IsCandidate)
             IN [k \in DOMAIN with |-> <<with[k], adhoc.keys[Argmax(with[k])]>>],
          !.repeat_obj_pairs =
             LET with == SelectSeq(IdList, IsTied)
             IN Concat([k \in DOMAIN with |-> TiedKeys(with[k])], Len(with)),
          !.full_utterance_obj_pairs =
             [k \in DOMAIN IdList |->
                LET i == IdList[k]
                IN IF IsCandidate(i) THEN <<i, <<adhoc.keys[Argmax(i)]>>>>
                   ELSE IF IsTied(i) THEN <<i, TiedKeys(i)>>
                   ELSE <<i, adhoc.keys[Argmax(i)]>>]]
  /\ pc' = "adhoc_exclude"
  /\ UNCHANGED <<objects, relationships, img_template, image, objects_structs,
                 utterances, provenance, intrinsic, files, history, render>>

\* updated_utterance_obj_pairs: `# exclude repeat utterance`
UpdatedPairs ==
  LET pairs == adhoc.utterance_obj_pairs
      utterance_count == UtteranceCount(pairs)
      happys == [j \in DOMAIN pairs |-> pairs[j][2]]
      keys == FirstSeen(happys, Len(happys))
      kept == SelectSeq(keys, LAMBDA key :
                /\ CountedOnce(utterance_count, key)
                /\ NotRepeated(adhoc.repeat_obj_pairs, key))
  IN [k \in DOMAIN kept |-> pairs[utterance_count[kept[k]][1]]]

\* as ReturnsNone, for a function that hands back whatever it has
ReturnsNone_Never(updated_utterance_obj_pairs) == FALSE

\* `if len(updated_utterance_obj_pairs) == 0: return None, None, None`
ReturnsNone(updated_utterance_obj_pairs) == Len(updated_utterance_obj_pairs) = 0

\* the exclusion of repeated values and the return
AdHocExclude ==
  /\ pc = "adhoc_exclude"
  /\ adhoc' =
       [adhoc EXCEPT
          !.utterance_count = UtteranceCount(adhoc.utterance_obj_pairs),
          !.updated_utterance_obj_pairs = UpdatedPairs,
          !.returned =
             IF ReturnsNone(UpdatedPairs)
             THEN [none |-> TRUE, value |-> <<>>]
             ELSE [none |-> FALSE,
                   value |-> <<adhoc.full_utterance_obj_pairs, UpdatedPairs,
                               adhoc.full_matrix>>]]
  /\ pc' = "adhoc_returned"
  /\ UNCHANGED <<objects, relationships, img_template, image, objects_structs,
                 utterances, provenance, intrinsic, files, history, render>>

NextAdHoc ==
  \/ AdHocCount
  \/ AdHocMatrix
  \/ AdHocPairs
  \/ AdHocExclude

SpecAdHoc == InitAdHoc /\ [][NextAdHoc]_vars

-----------------------------------------------------------------------------
(* add_random_objects and add_ad_hoc_random_objects: placement with        *)
(* restarts.  Lengths are counted in units of 0.05.  A restart is the      *)
(* recursive call in return position: the locals of the calling frame are  *)
(* dead, and the model keeps those of the innermost frame only.            *)

\* --max_retries: the positions tried per object before the round is given up
max_retries == 1

\* --min_dist, default 0.25
min_dist == 5

\* --margin, default 0.4
margin == 8

\* r of size_mapping: the radius that goes with a size name
Radius(size_name) == CASE size_name = "small" -> 7 [] size_name = "large" -> 14

\* `if obj_name == 'Cube': r /= math.sqrt(2)`, rounded to the unit
AdjustedRadius(shape, r) ==
  IF shape = "cube" THEN (r * 7071 + 5000) \div 10000 ELSE r

\* the values random.uniform(-3, 3) is followed on, as (x, y)
PlaceGrid == {<<0, 0>>, <<40, 40>>, <<-40, 20>>, <<20, -40>>, <<3, 50>>}

\* the shapes, colours and materials random.choice is followed on
RenderKinds ==
  {Obj("small", "red", "rubber", "cube"), Obj("small", "red", "rubber", "sphere"),
   Obj("small", "blue", "rubber", "cube")}

\* the num_objects the callers are followed on
RenderObjectCounts ==
  [add_random_objects |-> {2}, add_ad_hoc_random_objects |-> {4}]

\* `dist - r - rr < args.min_dist` for no placed object
DistsGood(x, y, r, positions) ==
  \A k \in DOMAIN positions :
    LET dx == x - positions[k][1]
        dy == y - positions[k][2]
        reach == min_dist + r + positions[k][3]
    IN ~(dx * dx + dy * dy < reach * reach)

\* `0 < margin < args.margin` for no placed object and no direction
MarginsGood(x, y, positions) ==
  \A k \in DOMAIN positions : \A n \in DOMAIN Directions :
    LET dx == x - positions[k][1]
        dy == y - positions[k][2]
        direction_vec == DirectionVec[Directions[n]]
        m == dx * direction_vec[1] + dy * direction_vec[2]
    IN ~(0 < m /\ m < margin)

\* as TriesExhausted, giving up one try later
TriesExhausted_Late(num_tries) == num_tries > max_retries + 1

\* `if num_tries > args.max_retries`
TriesExhausted(num_tries) == num_tries > max_retries

\* utils.add_object and bpy.context.object: the handle of the object added
\* to the Blender scene, which no object of the scene has
add_object(scene) == CHOOSE id \in 0..Cardinality(scene) : id \notin scene

\* utils.delete_object(obj): the Blender scene without obj
delete_object(scene, obj) == scene \ {obj}

\* as DeleteObjects, for a restart that leaves the objects where they are
DeleteObjects_None(scene, blender_objects) == scene

RECURSIVE DeleteObjects(_, _)
\* `for obj in blender_objects: utils.delete_object(obj)`
DeleteObjects(scene, blender_objects) ==
  IF blender_objects = <<>> THEN scene
  ELSE DeleteObjects(delete_object(scene, Head(blender_objects)),
                     Tail(blender_objects))

\* nothing has been returned to main
NoReturn == [returned |-> FALSE]

\* no scene file has been written
NoSceneFile == [written |-> FALSE]

\* the locals at entry of a placement function called on Blender scene `scene`
PlacementEntered(fn, num_objects, scene, cause, type_txt) ==
  [called |-> TRUE, fn |-> fn, num_objects |-> num_objects, scene |-> scene,
   positions |-> <<>>, blender_objects |-> <<>>, num_tries |-> 0,
   cause |-> cause, type_txt |-> type_txt, scene_file |-> NoSceneFile,
   result |-> NoReturn]

\* the state of main when render_scene or render_ad_hoc_scene calls the
\* placement function: the base scene holds no object
InitRender ==
  /\ objects = <<>>
  /\ relationships = [name \in Range(Directions) |-> <<>>]
  /\ img_template = ImageName(0)
  /\ pc = "place"
  /\ image = [some2ids |-> EmptyDict, all |-> <<>>, ids |-> EmptyDict]
  /\ objects_structs = <<>>
  /\ utterances = <<>>
  /\ provenance = <<>>
  /\ intrinsic = NoIntrinsic
  /\ files = EmptyFiles
  /\ history = <<>>
  /\ adhoc = NoAdHoc
  /\ \E fn \in DOMAIN RenderObjectCounts :
       \E num_objects \in RenderObjectCounts[fn] :
         render = PlacementEntered(fn, num_objects, {}, "none", <<>>)

\* one pass of the `while True` loop of the current object: a position is
\* drawn; if it is good the object is added and the loop over the objects
\* goes on, else the position is drawn again
TryPosition ==
  /\ pc = "place"
  /\ Len(render.positions) < render.num_objects
  /\ ~TriesExhausted(render.num_tries + 1)
  /\ \E p \in PlaceGrid : \E kind \in RenderKinds :
       LET r == Radius(kind.size)
           obj == add_object(render.scene)
           n == Len(render.positions)
       IN IF DistsGood(p[1], p[2], r, render.positions)
               /\ MarginsGood(p[1], p[2], render.positions)
          THEN /\ render' =
                    [render EXCEPT
                       !.scene = @ \cup {obj},
                       !.blender_objects = Append(@, obj),
                       !.positions =
                          Append(@, <<p[1], p[2], AdjustedRadius(kind.shape, r)>>),
                       !.num_tries = 0,
                       !.cause = "none"]
               /\ objects' = [i \in 0..n |-> IF i < n THEN objects[i] ELSE kind]
               /\ IF n + 1 < render.num_objects
                  THEN pc' = "place" /\ adhoc' = adhoc
                  ELSE IF render.fn = "add_ad_hoc_random_objects"
                  THEN pc' = "adhoc_count" /\ adhoc' = AdHocEntered
                  ELSE pc' = "visibility" /\ adhoc' = adhoc
          ELSE /\ render' = [render EXCEPT !.num_tries = @ + 1, !.cause = "none"]
               /\ UNCHANGED <<objects, pc, adhoc>>
  /\ UNCHANGED <<relationships, img_template, image, objects_structs,
                 utterances, provenance, intrinsic, files, history>>

\* the objects of the round are deleted and the function calls itself
Restart(cause) ==
  /\ render' =
       PlacementEntered(render.fn, render.num_objects,
                        DeleteObjects(render.scene, render.blender_objects),
                        cause, render.type_txt)
  /\ objects' = <<>>
  /\ adhoc' = NoAdHoc
  /\ pc' = "place"
  /\ UNCHANGED <<relationships, img_template, image, objects_structs,
                 utterances, provenance, intrinsic, files, history>>

\* `if num_tries > args.max_retries`: the round is given up
RestartExhausted ==
  /\ pc = "place"
  /\ Len(render.positions) < render.num_objects
  /\ TriesExhausted(render.num_tries + 1)
  /\ Restart("exhausted")

\* `if utterance_obj_pairs == None`: the scene has no candidate pair
RestartNoCandidate ==
  /\ pc = "adhoc_returned"
  /\ adhoc.returned.none
  /\ Restart("no_candidate")

\* check_visibility and what follows it: the objects are returned, or the
\* round is given up because an object is occluded
CheckVisibility ==
  /\ \/ pc = "visibility"
     \/ pc = "adhoc_returned" /\ adhoc.returned.none = FALSE
  /\ \E all_visible \in BOOLEAN :
       IF all_visible
       THEN /\ pc' = "placed"
            /\ UNCHANGED <<objects, relationships, img_template, image,
                           objects_structs, utterances, provenance, intrinsic,
                           files, history, adhoc, render>>
       ELSE Restart("occluded")

-----------------------------------------------------------------------------
(* render_scene and render_ad_hoc_scene after the objects are placed, and  *)
(* the loop of main around render_ad_hoc_scene.                            *)

\* scene_template % (i + args.start_idx) of the image that is rendered
output_scene == "ad_hoc/meta_data/000000.json"

\* obj['3d_coords'] of the placed objects, on the ground plane
Coords == [i \in Ids |-> <<render.positions[i + 1][1], render.positions[i + 1][2]>>]

\* scene_struct['objects']: the attributes and the coordinates of the objects
SceneObjects == [i \in Ids |-> [attributes |-> objects[i], coords |-> Coords[i]]]

\* raw_utterance_obj_pairs[i][1][0]: the first key of a list of keys, or the
\* first character of the key where the pair holds the key itself
RawFirst(raw_utterance_obj_pairs, i) ==
  LET entry == raw_utterance_obj_pairs[i + 1][2]
  IN IF IsCandidate(i) \/ IsTied(i) THEN entry[1] ELSE SubSeq(entry, 1, 1)

\* other_utterances: for every other object whose description contains every
\* word of the utterance, the first of its raw pair
OtherUtterances(raw_utterance_obj_pairs, obj_ind, utterance) ==
  LET utterance_split == Split(utterance, " ")
      temp_flag(i) ==
        \A k \in DOMAIN utterance_split : StrContains(objds[i], utterance_split[k])
      others == SelectSeq(IdList, LAMBDA i : temp_flag(i) /\ obj_ind # i)
  IN [k \in DOMAIN others |-> RawFirst(raw_utterance_obj_pairs, others[k])]

\* the line appended to output_type_txt
TypeLine(other_utterances) ==
  IF Len(other_utterances) = Cardinality(Range(other_utterances))
  THEN output_scene \o "\tEasy" \o "\n"
  ELSE output_scene \o "\tDifficult" \o "\n"

\* as UtteranceUses, counting the pairs of every utterance
UtteranceUses_AllPairs(utterance_obj_pairs, utterance) == Len(utterance_obj_pairs)

\* count: the number of pairs of utterance_obj_pairs that hold the utterance
UtteranceUses(utterance_obj_pairs, utterance) ==
  Cardinality({j \in DOMAIN utterance_obj_pairs :
                 utterance_obj_pairs[j][2] = utterance})

\* `if count > 1: return None, None`
Discarded(count) == count > 1

\* as SampledPairs, for the candidate pairs before the exclusion
SampledPairs_Unfiltered(returned) == adhoc.utterance_obj_pairs

\* utterance_obj_pairs, which random.sample draws from: the third of the
\* five values add_ad_hoc_random_objects returns, the second of the three
\* of calculate_ad_hoc_matrix
SampledPairs(returned) == returned[2]

\* render_scene from the return of add_random_objects on
FinishScene ==
  /\ pc = "placed"
  /\ render.fn = "add_random_objects"
  /\ relationships' = compute_all_relationships(Coords)
  /\ render' =
       [render EXCEPT
          !.scene_file =
             [written |-> TRUE, objects |-> SceneObjects,
              relationships |-> relationships'],
          !.result = [returned |-> TRUE, none |-> TRUE]]
  /\ pc' = "rendered"
  /\ UNCHANGED <<objects, img_template, image, objects_structs,
                 utterances, provenance, intrinsic, files, history, adhoc>>

\* render_ad_hoc_scene from the return of add_ad_hoc_random_objects on: a
\* pair is sampled, the difficulty is logged, and the scene file is written
\* unless the utterance is counted more than once
FinishAdHocScene ==
  /\ pc = "placed"
  /\ render.fn = "add_ad_hoc_random_objects"
  /\ \E k \in DOMAIN SampledPairs(adhoc.returned.value) :
       LET raw_utterance_obj_pairs == adhoc.returned.value[1]
           utterance_obj_pairs == SampledPairs(adhoc.returned.value)
           obj_ind == utterance_obj_pairs[k][1]
           utterance == utterance_obj_pairs[k][2]
           count == UtteranceUses(utterance_obj_pairs, utterance)
           line == TypeLine(OtherUtterances(raw_utterance_obj_pairs,
                                            obj_ind, utterance))
       IN IF Discarded(count)
          THEN /\ render' =
                    [render EXCEPT
                       !.type_txt = @ \o line,
                       !.result = [returned |-> TRUE, none |-> TRUE,
                                   count |-> count]]
               /\ relationships' = relationships
          ELSE /\ relationships' = compute_all_relationships(Coords)
               /\ render' =
                    [render EXCEPT
                       !.type_txt = @ \o line,
                       !.scene_file =
                          [written |-> TRUE, objects |-> SceneObjects,
                           object_ind |-> SceneObjects[obj_ind],
                           utterance |-> utterance,
                           referent |-> objds[obj_ind],
                           relationships |-> relationships'],
                       !.result = [returned |-> TRUE, none |-> FALSE,
                                   count |-> count,
                                   obj_ind |-> obj_ind, utterance |-> utterance]]
  /\ pc' = "rendered"
  /\ UNCHANGED <<objects, img_template, image, objects_structs,
                 utterances, provenance, intrinsic, files, history, adhoc>>

\* `while obj_ind==None:` of main: render_ad_hoc_scene is called again on the
\* reloaded base scene, or the loop is left
MainLoop ==
  /\ pc = "rendered"
  /\ render.fn = "add_ad_hoc_random_objects"
  /\ IF render.result.none
     THEN /\ \E num_objects \in RenderObjectCounts[render.fn] :
               render' = PlacementEntered(render.fn, num_objects, {}, "none",
                                          render.type_txt)
          /\ objects' = <<>>
          /\ adhoc' = NoAdHoc
          /\ pc' = "place"
     ELSE /\ pc' = "main_done"
          /\ UNCHANGED <<objects, adhoc, render>>
  /\ UNCHANGED <<relationships, img_template, image, objects_structs,
                 utterances, provenance, intrinsic, files, history>>

NextRender ==
  \/ TryPosition
  \/ RestartExhausted
  \/ AdHocCount
  \/ AdHocMatrix
  \/ AdHocPairs
  \/ AdHocExclude
  \/ RestartNoCandidate
  \/ CheckVisibility
  \/ FinishScene
  \/ FinishAdHocScene
  \/ MainLoop

SpecRender == InitRender /\ [][NextRender]_vars

-----------------------------------------------------------------------------
(* parse_scene on scenes of five objects, three or four of one colour.     *)

\* the colours of the five objects: three red and two blue, or four red and
\* one blue
QuantifiedColours ==
  {<<"red", "red", "red", "blue", "blue">>, <<"red", "red", "red", "red", "blue">>}

\* three places on a diagonal of the ground plane: an object further along
\* is on the right of and behind one less far along
QuantifiedPositions == {<<0, 0>>, <<5, 5>>, <<10, 10>>}

InitQuantified ==
  /\ \E colours \in QuantifiedColours :
       objects = [i \in 0..4 |-> Obj("small", colours[i + 1], "rubber", "cube")]
  /\ \E coords \in [DOMAIN objects -> QuantifiedPositions] :
        relationships = compute_all_relationships(coords)
  /\ img_template = ImageName(0)
  /\ pc = "index"
  /\ image = [some2ids |-> EmptyDict, all |-> <<>>, ids |-> EmptyDict]
  /\ objects_structs = <<>>
  /\ utterances = <<>>
  /\ provenance = <<>>
  /\ intrinsic = NoIntrinsic
  /\ files = EmptyFiles
  /\ history = <<>>
  /\ adhoc = NoAdHoc
  /\ render = NoRender

SpecQuantified == InitQuantified /\ [][Next]_vars

-----------------------------------------------------------------------------
(* Properties of the attribute index.                                      *)

\* C1, as stated: every one-attribute description of an object of a scene with
\* at least one object is labelled ALL iff its extension has as many members as
\* there are objects, EXACTLY_ONE iff its extension has one member, and SOME
\* otherwise.
C1_PartitionAsStated ==
  pc \notin {"index", "structs"} =>
    \A i \in Ids : \A a \in 1..4 :
      LET name == objects_structs[i].left_names[a + 1]
          size == Len(image_2ids[objd_lists[i][a]])
          all  == MatchAt(name, 1, "all ")
          one  == MatchAt(name, 1, "Exactly one all ")
          some == MatchAt(name, 1, "some ")
      IN /\ all <=> size = len_objects
         /\ one <=> size = 1
         /\ some <=> (size # len_objects /\ size # 1)

\* C1, amended: the label is ALL iff the extension has as many members as there
\* are objects, EXACTLY_ONE iff it has one member and the scene has more than
\* one object, SOME iff it has more than one member and fewer than there are
\* objects; exactly one of the three labels is carried.
C1_Partition ==
  pc \notin {"index", "structs"} =>
    \A i \in Ids : \A a \in 1..4 :
      LET name == objects_structs[i].left_names[a + 1]
          attr == objd_lists[i][a]
          size == Len(image_2ids[attr])
      IN /\ name = "all " \o attr <=> size = len_objects
         /\ name = "Exactly one all " \o attr <=> (size = 1 /\ len_objects > 1)
         /\ name = "some " \o attr <=> (1 < size /\ size < len_objects)
         /\ name \in {"all " \o attr, "Exactly one all " \o attr, "some " \o attr}

\* a scene of several objects whose primary names carry all three labels
C1_Witness ==
  /\ pc = "right_names"
  /\ len_objects > 1
  /\ \E i \in Ids : \E a \in 1..4 :
       MatchAt(objects_structs[i].left_names[a + 1], 1, "Exactly one all ")
  /\ \E i \in Ids : \E a \in 1..4 :
       MatchAt(objects_structs[i].left_names[a + 1], 1, "some ")
  /\ \E i \in Ids : \E a \in 1..4 :
       MatchAt(objects_structs[i].left_names[a + 1], 1, "all ")

\* C2: the stored extension of every indexed description is exactly the set
\* of objects whose four attribute values include every value of the
\* description, also when one value's name is a substring of another's.
C2_StructuralExtension ==
  pc # "index" =>
    \A D \in DOMAIN image_2ids :
      Range(image_2ids[D]) =
        {j \in Ids : Range(Split(D, " ")) \subseteq Range(objd_lists[j])}

\* C3: a description is listed under "some" iff its extension is a non-empty
\* proper subset of the objects and under "all" iff its extension is the
\* whole object set; the groups are disjoint and cover the index; in the
\* three-object scenario red, rubber and cube are "some", red and rubber
\* with extension {0, 1}, and nothing is "all".
C3_SomeAllClassification ==
  pc # "index" =>
    LET some == DOMAIN image_some2ids
        all  == Range(image_all)
    IN /\ \A D \in DOMAIN image_2ids :
            LET ext == Range(image_2ids[D])
            IN /\ D \in some <=> (ext # {} /\ ext \subseteq Ids /\ ext # Ids)
               /\ D \in all <=> ext = Ids
       /\ some \cap all = {}
       /\ some \cup all = DOMAIN image_2ids
       /\ objects = ScenarioObjects =>
            /\ {"red", "rubber", "cube"} \subseteq some
            /\ Range(image_2ids["red"]) = {0, 1}
            /\ Range(image_2ids["rubber"]) = {0, 1}
            /\ all = {}

\* the scenario scene, indexed
C3_Witness ==
  /\ pc = "structs"
  /\ objects = ScenarioObjects
  /\ "red" \in DOMAIN image_some2ids

\* C4: every indexed description has at least one object in its extension;
\* the extension of the description of any window of any object contains
\* that object, hence every object that produces the same text.
C4_ExtensionCoverage ==
  pc # "index" =>
    /\ \A D \in DOMAIN image_2ids : Len(image_2ids[D]) >= 1
    /\ \A i \in Ids : \A a \in 1..4 : \A b \in a..4 :
         LET D == Join(" ", SubSeq(objd_lists[i], a, b))
         IN D \in DOMAIN image_2ids /\ i \in Range(image_2ids[D])

\* two objects produce the same full description, and both are stored
C4_Witness ==
  /\ pc = "structs"
  /\ \E i \in Ids : \E j \in Ids :
       /\ i < j
       /\ objds[i] = objds[j]
       /\ {i, j} \subseteq Range(image_2ids[objds[j]])

\* C5: the indexed descriptions are exactly the contiguous sub-tuples, of
\* lengths 1 to 4, of the objects' attribute vectors; a combination of
\* attributes that are not adjacent is not indexed.
C5_ContiguousWindows ==
  pc # "index" =>
    /\ DOMAIN image_2ids =
         {Join(" ", SubSeq(objd_lists[i], a, b)) :
            i \in Ids, a \in 1..4, b \in 1..4} \ {""}
    /\ \A i \in Ids : \A S \in SUBSET (1..4) :
         (\E a \in S : \E b \in S : \E c \in (1..4) \ S : a < c /\ c < b) =>
           Join(" ", SelectSeq(objd_lists[i], LAMBDA v : \E a \in S : objd_lists[i][a] = v))
             \notin DOMAIN image_2ids

\* an indexed scene holding windows of every length
C5_Witness ==
  /\ pc = "structs"
  /\ {"red", "small red", "red rubber cube", "small red rubber cube"}
       \subseteq DOMAIN image_2ids

-----------------------------------------------------------------------------
(* Properties of the secondary descriptors and of the utterances.          *)

\* C6: for every pivot object, direction d and one-attribute description s of
\* an object related to the pivot in d, the secondary descriptor is "some s"
\* iff an object of the extension of s is not related to the pivot in d;
\* otherwise it is "Exactly one all s" when the extension has one member
\* and "all s" when it has more; the same in all four directions.
C6_SecondaryQuantifierRule ==
  pc \notin {"index", "structs", "right_names"} =>
    \A i \in Ids : \A n \in DOMAIN Directions :
      LET d   == Directions[n]
          rel == relationships[d][i]
          ds  == objects_structs[i][d]
      IN /\ Len(ds) = 4 * Len(rel)
         /\ \A k \in DOMAIN rel : \A a \in 1..4 :
              LET s    == objd_lists[rel[k]][a]
                  ext  == Range(image_2ids[s])
                  name == ds[4 * (k - 1) + a]
              IN /\ name = "some " \o s <=> \E x \in ext : x \notin Range(rel)
                 /\ name = "Exactly one all " \o s <=>
                      (ext \subseteq Range(rel) /\ Cardinality(ext) = 1)
                 /\ name = "all " \o s <=>
                      (ext \subseteq Range(rel) /\ Cardinality(ext) > 1)

\* a scene whose descriptors carry all three quantifiers, one of them "all"
\* for a description that is not true of every object
C6_Witness ==
  /\ pc = "primary_names"
  /\ \E i \in Ids : \E n \in DOMAIN Directions :
       \E name \in Range(objects_structs[i][Directions[n]]) :
         MatchAt(name, 1, "some ")
  /\ \E i \in Ids : \E n \in DOMAIN Directions :
       \E name \in Range(objects_structs[i][Directions[n]]) :
         MatchAt(name, 1, "Exactly one all ")
  /\ \E i \in Ids : \E n \in DOMAIN Directions :
       \E name \in Range(objects_structs[i][Directions[n]]) :
         /\ MatchAt(name, 1, "all ")
         /\ Replace(name, "all ", "") \in DOMAIN image_some2ids

\* C7: when parse_scene has ended, for every pivot object with a one-attribute
\* description whose extension has exactly one member, and every secondary
\* descriptor of that pivot, an utterance about that description and that
\* descriptor has been emitted whose text begins with "Exactly one".
C7_UniquePivotOverride ==
  pc \in {"done", "raised"} =>
    \A i \in Ids : \A a \in 1..4 :
      LET X == objd_lists[i][a]
      IN Len(image_2ids[X]) = 1 =>
           \A n \in DOMAIN Directions :
             \A descrip \in Range(objects_structs[i][Directions[n]]) :
               \E u \in DOMAIN files :
                 /\ MatchAt(u, 1, "Exactly one")
                 /\ StrContains(u, X)
                 /\ StrContains(u, descrip)

\* C8: no emitted utterance has as its primary description an attribute
\* value that is true of all objects of the scene.
C8_TrivialPrimariesSkipped ==
  pc = "done" =>
    \A k \in DOMAIN provenance :
      provenance[k].text \in DOMAIN files =>
        Range(image_2ids[provenance[k].primary]) # Ids

\* C9: no emitted utterance has a primary description and a secondary
\* description that are textually identical, whichever quantifier the
\* primary carries.
C9_NoSelfRelation ==
  pc = "done" =>
    \A k \in DOMAIN provenance :
      LET secondary ==
            Replace(Replace(Replace(provenance[k].descrip, "some ", ""),
                            "Exactly one all ", ""), "all ", "")
      IN provenance[k].text \in DOMAIN files =>
           provenance[k].primary # secondary

\* C10: every emitted utterance built from the objects on the left of the
\* pivot uses "on the right of", from those on its right "on the left of",
\* from those in front of it "behind", from those behind it "in front of",
\* whatever quantifier its primary name carries.
C10_OppositePreposition ==
  pc = "done" =>
    \A k \in DOMAIN provenance :
      LET d == provenance[k].dir
          preposition ==
            CASE d = "left" -> "on the right of" [] d = "right" -> "on the left of"
              [] d = "front" -> "behind" [] d = "behind" -> "in front of"
      IN provenance[k].text \in DOMAIN files =>
           StrContains(provenance[k].text, preposition)

\* C11: in the scenario scene with both red objects on the left of object 2,
\* once parse_scene has ended the emitted utterances include one that says
\* "all red on the right of" the blue object, without "Exactly one".
C11_ScenarioTwo ==
  (/\ pc \in {"done", "raised"}
   /\ objects = ScenarioObjects
   /\ relationships.left[2] = <<0, 1>>) =>
    \E u \in DOMAIN files :
      /\ MatchAt(u, 1, "all red on the right of ")
      /\ \E s \in {"small", "blue", "metal", "sphere"} : StrContains(u, s)

-----------------------------------------------------------------------------
(* Properties of the output of one call and of a run over several scenes.  *)

\* C12: two calls of parse_scene on the same scene (same objects, same
\* relation lists) return the same set of utterance strings, whatever was
\* parsed between them and whatever image name they were given.
C12_UtteranceIdempotence ==
  \A a \in DOMAIN history : \A b \in DOMAIN history :
    (/\ history[a].objects = history[b].objects
     /\ history[a].relationships = history[b].relationships)
      => history[a].utterances = history[b].utterances

\* the same scene parsed first and third, another scene with other
\* utterances between them
C12_Witness ==
  /\ Len(history) = 3
  /\ history[1].objects = history[3].objects
  /\ history[1].relationships = history[3].relationships
  /\ history[1].utterances # {}
  /\ history[2].utterances \ history[1].utterances # {}

\* C13: when a call of parse_scene has returned, every utterance string it
\* generated, however often, has had the image name appended exactly once
\* to its file, and no other file was written.
C13_PerSceneDeduplication ==
  pc = "done" =>
    /\ DOMAIN files = Range(utterances)
    /\ \A u \in Range(utterances) : files[u] = img_template

\* a returned call in which two pivot objects generated the same string
C13_Witness ==
  /\ pc = "done"
  /\ \E j \in DOMAIN provenance : \E k \in DOMAIN provenance :
       /\ provenance[j].text = provenance[k].text
       /\ provenance[j].id # provenance[k].id
       /\ files[provenance[j].text] = img_template

\* C14: the file of every utterance string holds, in processing order and
\* each once, the image names of exactly the returned calls whose utterance
\* set contains the string; a step never removes a file nor changes what a
\* file already holds.
C14_AppendOnlyAccumulation ==
  /\ [](/\ DOMAIN files = UNION {history[k].utterances : k \in DOMAIN history}
        /\ \A u \in DOMAIN files :
             LET with == SelectSeq(history, LAMBDA h : u \in h.utterances)
             IN files[u] = Join("", [k \in DOMAIN with |-> with[k].img]))
  /\ [][\A u \in DOMAIN files :
          u \in DOMAIN files' /\ MatchAt(files'[u], 1, files[u])]_vars

\* three scenes parsed; a string generated by the first and the third only
C14_Witness ==
  /\ Len(history) = 3
  /\ \E u \in DOMAIN files : files[u] = ImageName(0) \o ImageName(2)

-----------------------------------------------------------------------------
(* Properties of parse_scene on inconsistent and on degenerate scenes.     *)

\* C15: if a relation list of the scene holds an id that is not the index of
\* an object (negative, or at or beyond the object count), parse_scene never
\* returns and writes neither the intrinsic file nor an utterance file.
C15_FailFastOnInconsistentRelations ==
  (\E n \in DOMAIN Directions : \E i \in Ids :
     \E id \in Range(relationships[Directions[n]][i]) : id \notin Ids)
    => /\ pc # "done"
       /\ intrinsic.written = FALSE
       /\ files = EmptyFiles

-----------------------------------------------------------------------------
(* Properties of calculate_ad_hoc_matrix.                                  *)

\* C17: the score of a value on an object that holds it is
\* 1 / (number of holders + 0.001) and 0 on any other object; object i is a
\* candidate with value v iff the score of v on i is greater than that of
\* every other value on i and is below 0.9.
C17_CandidateRule ==
  pc \in {"adhoc_exclude", "adhoc_returned"} =>
    LET values == UNION {Range(AdHocValues(objects[j])) : j \in Ids}
        holders(v) == {j \in Ids : v \in Range(AdHocValues(objects[j]))}
        score(v, i) ==
          IF i \in holders(v) THEN <<1000, 1000 * Cardinality(holders(v)) + 1>>
          ELSE <<0, 1>>
    IN /\ Range(adhoc.keys) = values
       /\ \A k \in DOMAIN adhoc.keys : \A i \in Ids :
            Same(adhoc.full_matrix[k][i], score(adhoc.keys[k], i))
       /\ \A i \in Ids : \A v \in values :
            <<i, v>> \in Range(adhoc.utterance_obj_pairs) <=>
              /\ \A w \in values \ {v} : Less(score(w, i), score(v, i))
              /\ Less(score(v, i), <<9, 10>>)

\* one object is a candidate, another has a single best value that only it
\* holds and is no candidate
C17_Witness ==
  /\ pc = "adhoc_returned"
  /\ adhoc.utterance_obj_pairs # <<>>
  /\ \E i \in Ids :
       /\ Cardinality(Where(i)) = 1
       /\ ~Less(ColumnMax(i), Threshold)
       /\ \A k \in DOMAIN adhoc.utterance_obj_pairs :
            adhoc.utterance_obj_pairs[k][1] # i

\* C18: a value that ties for the best score on some object, or is the one
\* best value of two different objects, is the distinguishing value of no
\* pair of the output.
C18_TieExclusion ==
  pc = "adhoc_returned" =>
    LET values == UNION {Range(AdHocValues(objects[j])) : j \in Ids}
        of(i) == Range(AdHocValues(objects[i]))
        h(v) == Cardinality({j \in Ids : v \in of(j)})
        ties(v, i) ==
          /\ v \in of(i)
          /\ \A w \in of(i) : h(v) <= h(w)
          /\ \E w \in of(i) \ {v} : h(w) = h(v)
        best(v, i) == v \in of(i) /\ \A w \in of(i) \ {v} : h(v) < h(w)
    IN \A v \in values :
         (\/ \E i \in Ids : ties(v, i)
          \/ \E i \in Ids : \E j \in Ids \ {i} : best(v, i) /\ best(v, j))
           => \A k \in DOMAIN adhoc.updated_utterance_obj_pairs :
                adhoc.updated_utterance_obj_pairs[k][2] # v

\* a value ties on one object and is the candidate value of one other object
C18_Witness ==
  /\ pc = "adhoc_returned"
  /\ \E i \in Ids : \E k \in DOMAIN adhoc.utterance_obj_pairs :
       LET v == adhoc.utterance_obj_pairs[k][2]
       IN /\ IsTied(i)
          /\ v \in Range(TiedKeys(i))
          /\ Len(adhoc.utterance_count[v]) = 1

\* C19: in the output no value is paired with two objects and no object is
\* in two pairs, and a pair is in the output iff it is a candidate pair, no
\* other object is a candidate with its value, and its value is not among
\* the repeated values.
C19_OneObjectPerValue ==
  pc = "adhoc_returned" =>
    LET updated == adhoc.updated_utterance_obj_pairs
        out  == Range(updated)
        cand == Range(adhoc.utterance_obj_pairs)
    IN /\ Cardinality(out) = Len(updated)
       /\ \A p \in out : \A q \in out : (p[1] = q[1] \/ p[2] = q[2]) => p = q
       /\ out = {p \in cand :
                   /\ \A q \in cand : q[2] = p[2] => q[1] = p[1]
                   /\ p[2] \notin Range(adhoc.repeat_obj_pairs)}

\* a pair is returned while two other objects are candidates with one value
C19_Witness ==
  /\ pc = "adhoc_returned"
  /\ adhoc.returned.none = FALSE
  /\ adhoc.returned.value[2] = adhoc.updated_utterance_obj_pairs
  /\ \E j \in DOMAIN adhoc.utterance_obj_pairs :
       \E k \in DOMAIN adhoc.utterance_obj_pairs :
         /\ j # k
         /\ adhoc.utterance_obj_pairs[j][2] = adhoc.utterance_obj_pairs[k][2]

\* C20, as stated: for four objects alike but for the colour, one blue and
\* three red, the output is the blue object paired with "blue".
C20_UniqueColourAsStated ==
  (/\ pc = "adhoc_returned"
   /\ len_objects = 4
   /\ \A i \in Ids : objects[i].shape = objects[0].shape
   /\ Cardinality({i \in Ids : objects[i].color = "blue"}) = 1)
    => \E b \in Ids :
         /\ objects[b].color = "blue"
         /\ adhoc.returned.none = FALSE
         /\ adhoc.updated_utterance_obj_pairs = <<<<b, "blue">>>>

\* C20, amended: for such a scene nothing is returned: the blue object is no
\* candidate, its best score 1/1.001 being not below 0.9, and "red" is the
\* candidate value of all three red objects.
C20_UniqueColour ==
  (/\ pc = "adhoc_returned"
   /\ len_objects = 4
   /\ \A i \in Ids : objects[i].shape = objects[0].shape
   /\ Cardinality({i \in Ids : objects[i].color = "blue"}) = 1)
    => /\ adhoc.returned.none
       /\ adhoc.updated_utterance_obj_pairs = <<>>
       /\ Range(adhoc.utterance_obj_pairs) =
            {<<i, "red">> : i \in {j \in Ids : objects[j].color = "red"}}

\* the scene of the scenario, returned from
C20_Witness ==
  /\ pc = "adhoc_returned"
  /\ len_objects = 4
  /\ \A i \in Ids : objects[i].shape = "cube"
  /\ objects[0].color = "blue"
  /\ \A i \in 1..3 : objects[i].color = "red"
  /\ adhoc.returned.none

\* C21: on every list of objects, the empty list included,
\* calculate_ad_hoc_matrix does not raise and returns; it returns None in
\* every position exactly when the filtered candidate set is empty, and the
\* filtered candidate set, with at least one pair, otherwise.
C21_EmptyResultIsAValue ==
  /\ pc = "adhoc_pairs" => RaisesValueError = FALSE
  /\ pc = "adhoc_returned" =>
       /\ adhoc.returned.none <=> adhoc.updated_utterance_obj_pairs = <<>>
       /\ len_objects = 0 => adhoc.returned.none
       /\ adhoc.returned.none = FALSE =>
            /\ adhoc.returned.value[2] = adhoc.updated_utterance_obj_pairs
            /\ Len(adhoc.returned.value[2]) >= 1

\* candidate pairs were found, none is left after the exclusion, and the
\* no-result value is returned
C21_Witness ==
  /\ pc = "adhoc_returned"
  /\ adhoc.utterance_obj_pairs # <<>>
  /\ adhoc.updated_utterance_obj_pairs = <<>>
  /\ adhoc.returned.none

-----------------------------------------------------------------------------
(* Properties of the rendering functions.                                  *)

\* C22: in the relation lists written to a scene file, for all distinct
\* objects A and B, B is in left[A] iff A is in right[B], and B is in
\* behind[A] iff A is in front[B]; j is in a list of object i iff object j
\* lies from object i in the direction the list is named after, by more
\* than eps.
C22_DirectionalSymmetry ==
  render.called /\ render.scene_file.written =>
    LET rel == render.scene_file.relationships
        objs == render.scene_file.objects
        x(i) == objs[i].coords[1]
        y(i) == objs[i].coords[2]
    IN /\ \A name \in Range(Directions) : DOMAIN rel[name] = DOMAIN objs
       /\ \A A \in DOMAIN objs : \A B \in DOMAIN objs \ {A} :
            /\ B \in Range(rel.left[A]) <=> A \in Range(rel.right[B])
            /\ B \in Range(rel.behind[A]) <=> A \in Range(rel.front[B])
       /\ \A i \in DOMAIN objs : \A j \in DOMAIN objs :
            /\ j \in Range(rel.left[i]) <=> x(i) - x(j) > eps
            /\ j \in Range(rel.right[i]) <=> x(j) - x(i) > eps
            /\ j \in Range(rel.front[i]) <=> y(i) - y(j) > eps
            /\ j \in Range(rel.behind[i]) <=> y(j) - y(i) > eps

\* a written scene in which an object has one object on its left and
\* another behind it
C22_Witness ==
  /\ render.called
  /\ render.scene_file.written
  /\ \E A \in Ids : \E B \in Ids : \E C \in Ids :
       /\ B # C
       /\ B \in Range(render.scene_file.relationships.left[A])
       /\ C \in Range(render.scene_file.relationships.behind[A])
       /\ C \notin Range(render.scene_file.relationships.left[A])

\* C23: a scene file written by render_ad_hoc_scene records an object and
\* an utterance such that (index of the object, utterance) is a pair of the
\* filtered candidate set of exactly the objects stored in the file: the
\* utterance is the one best value of that object, held by at least two
\* objects, the one best value of no other object, and tied for the best
\* on no object; no other pair of that set holds the utterance.
C23_AdHocReferentResult ==
  (/\ render.called
   /\ render.fn = "add_ad_hoc_random_objects"
   /\ render.scene_file.written) =>
    LET objs == render.scene_file.objects
        of(i) == Range(AdHocValues(objs[i].attributes))
        h(v) == Cardinality({j \in DOMAIN objs : v \in of(j)})
        best(i, v) ==
          /\ v \in of(i)
          /\ \A w \in of(i) \ {v} : h(v) < h(w)
          /\ h(v) >= 2
        tied(i, v) ==
          /\ v \in of(i)
          /\ \A w \in of(i) : h(v) <= h(w)
          /\ \E w \in of(i) \ {v} : h(w) = h(v)
        filtered(i, v) ==
          /\ best(i, v)
          /\ \A j \in DOMAIN objs \ {i} : ~best(j, v)
          /\ \A j \in DOMAIN objs : ~tied(j, v)
        u == render.scene_file.utterance
    IN /\ objs = SceneObjects
       /\ \E k \in DOMAIN objs :
            /\ objs[k] = render.scene_file.object_ind
            /\ k = render.result.obj_ind
            /\ u = render.result.utterance
            /\ filtered(k, u)
            /\ \A i \in DOMAIN objs : filtered(i, u) => i = k

\* a scene file is written for a scene in which a value that two objects
\* are candidates with was dropped
C23_Witness ==
  /\ render.called
  /\ render.fn = "add_ad_hoc_random_objects"
  /\ render.scene_file.written
  /\ Len(adhoc.utterance_obj_pairs) > Len(adhoc.updated_utterance_obj_pairs)
  /\ <<render.result.obj_ind, render.scene_file.utterance>>
       \in Range(adhoc.updated_utterance_obj_pairs)

-----------------------------------------------------------------------------
(* Properties of the utterances of parse_scene, continued.                 *)

\* C24: every emitted utterance is built from a primary description that is
\* one attribute value of some object and a secondary descriptor that
\* quantifies one attribute value of an object that is related to the pivot
\* in the direction the utterance is built from; the text begins with the
\* quantified primary value and ends with the secondary value.
C24_SingleAttributeUtterances ==
  pc = "done" =>
    \A k \in DOMAIN provenance :
      LET it == provenance[k]
          ends(s) ==
            /\ Len(s) <= Len(it.text)
            /\ SubSeq(it.text, Len(it.text) - Len(s) + 1, Len(it.text)) = s
      IN it.text \in DOMAIN files =>
           /\ \E j \in Ids : it.primary \in Range(objd_lists[j])
           /\ \E q \in {"some ", "all ", "Exactly one some ", "Exactly one all "} :
                MatchAt(it.text, 1, q \o it.primary)
           /\ \E j \in Range(relationships[it.dir][it.id]) :
                \E s \in Range(objd_lists[j]) :
                  /\ it.descrip \in {"some " \o s, "all " \o s, "Exactly one all " \o s}
                  /\ ends(s)

\* an utterance about a value that some objects hold and a descriptor with
\* "all" has been emitted
C24_Witness ==
  /\ pc = "done"
  /\ \E k \in DOMAIN provenance :
       /\ MatchAt(provenance[k].name, 1, "some ")
       /\ MatchAt(provenance[k].descrip, 1, "all ")
       /\ provenance[k].text \in DOMAIN files

-----------------------------------------------------------------------------
(* Properties of the placement functions and of the loop of main.          *)

\* C25: in add_random_objects and add_ad_hoc_random_objects no more than
\* max_retries positions are tried for an object in a round; when they are
\* used up, or the candidate set is empty, the next step deletes every
\* object of the round and starts again from an empty scene, as does a
\* failed visibility check; the Blender scene never holds an object that
\* is not of the current round, and the function returns only with
\* num_objects objects, all in the scene.
C25_RestartOnFailure ==
  /\ [](render.called =>
          /\ render.num_tries <= max_retries
          /\ render.scene = Range(render.blender_objects)
          /\ Cardinality(render.scene) = Len(render.blender_objects)
          /\ Len(render.positions) = Len(render.blender_objects)
          /\ len_objects = Len(render.blender_objects)
          /\ len_objects <= render.num_objects
          /\ render.cause # "none" =>
               /\ pc = "place"
               /\ render.scene = {}
               /\ objects = <<>>
               /\ render.positions = <<>>
               /\ render.num_tries = 0
          /\ pc \in {"placed", "rendered", "main_done"} =>
               /\ len_objects = render.num_objects
               /\ Cardinality(render.scene) = render.num_objects)
  /\ [][(/\ render.called
         /\ \/ /\ pc = "place"
               /\ Len(render.positions) < render.num_objects
               /\ render.num_tries = max_retries
            \/ pc = "adhoc_returned" /\ adhoc.returned.none)
        => (/\ render'.cause \in {"exhausted", "no_candidate"}
            /\ render'.scene = {}
            /\ objects' = <<>>
            /\ pc' = "place")]_vars

\* a round of add_ad_hoc_random_objects has been given up for want of a
\* candidate pair, and placement starts again from an empty scene
C25_Witness ==
  /\ render.called
  /\ render.cause = "no_candidate"
  /\ render.scene = {}
  /\ pc = "place"

\* C26: when "all X <prep> all s" or "all X <prep> Exactly one all s" has
\* been emitted, every object of the extension of X stands in the relation
\* the preposition states to every object of the extension of s; when
\* "all X <prep> some s" has been emitted, every object of the extension of
\* X has an object of the extension of s in the direction that goes with
\* the preposition.
C26_AllQuantifiedSoundness ==
  pc = "done" =>
    LET values == UNION {Range(objd_lists[j]) : j \in Ids}
        forms == {<<" on the right of ", "right", "left">>,
                  <<" on the left of ", "left", "right">>,
                  <<" behind ", "behind", "front">>,
                  <<" in front of ", "front", "behind">>}
    IN \A X \in values : \A s \in values : \A f \in forms :
         LET ext_X == Range(image_2ids[X])
             ext_s == Range(image_2ids[s])
             stands(x, y) == x \in Range(relationships[f[2]][y])
             has(x) == \E y \in ext_s : y \in Range(relationships[f[3]][x])
         IN /\ ("all " \o X \o f[1] \o "all " \o s) \in DOMAIN files =>
                 \A x \in ext_X : \A y \in ext_s : stands(x, y)
            /\ ("all " \o X \o f[1] \o "Exactly one all " \o s) \in DOMAIN files =>
                 \A x \in ext_X : \A y \in ext_s : stands(x, y)
            /\ ("all " \o X \o f[1] \o "some " \o s) \in DOMAIN files =>
                 \A x \in ext_X : has(x)

\* three red objects on the right of both blue objects, and the utterance
\* that says so
C26_Witness ==
  /\ pc = "done"
  /\ Len(image_2ids["red"]) = 3
  /\ "all red on the right of all blue" \in DOMAIN files

\* C27: for a primary description X, a preposition and a secondary descriptor
\* (a quantifier and a description s), the utterances written for a scene
\* never hold both the "all X ..." and the "some X ..." form, with or
\* without the "Exactly one" prefix; the form written is the "some" form
\* exactly when the universal statement fails for an object of the extension
\* of X: it has no s-object in the direction when the descriptor is "some s",
\* it does not stand in the relation to every s-object when the descriptor is
\* "all s" or "Exactly one all s".
C27_SomeAllExclusive ==
  pc = "done" =>
    LET forms == {<<" on the right of ", "right", "left">>,
                  <<" on the left of ", "left", "right">>,
                  <<" behind ", "behind", "front">>,
                  <<" in front of ", "front", "behind">>}
        prefixes == {"", "Exactly one "}
    IN \A X \in DOMAIN image_2ids : \A s \in DOMAIN image_2ids :
       \A f \in forms : \A Q \in {"some ", "all ", "Exactly one all "} :
         LET ext_X == Range(image_2ids[X])
             ext_s == Range(image_2ids[s])
             stands(x, y) == x \in Range(relationships[f[2]][y])
             has(x) == \E y \in ext_s : y \in Range(relationships[f[3]][x])
             universal == IF Q = "some " THEN \A x \in ext_X : has(x)
                          ELSE \A x \in ext_X : \A y \in ext_s : stands(x, y)
             tail == X \o f[1] \o Q \o s
             all_form == \E P \in prefixes : (P \o "all " \o tail) \in DOMAIN files
             some_form == \E P \in prefixes : (P \o "some " \o tail) \in DOMAIN files
         IN /\ ~(all_form /\ some_form)
            /\ all_form => universal
            /\ some_form => ~universal

\* two of three red objects have a blue object on their left, the third has
\* none, and the utterance about them is the "some" form without a prefix
C27_Witness ==
  /\ pc = "done"
  /\ Len(image_2ids["red"]) = 3
  /\ "some red on the right of some blue" \in DOMAIN files
  /\ "all red on the right of some blue" \notin DOMAIN files

\* C28, as stated: with right/front the inverses of left/behind, an utterance
\* about a primary description X and a secondary descriptor Q s starts with
\* "Exactly one" exactly when one object of the extension of X satisfies the
\* quantified predicate: it has an s-object in the direction when Q is
\* "some", it stands in the relation to every s-object when Q is "all" or
\* "Exactly one all".
C28_ExactlyOnePrefix ==
  pc = "done" =>
    LET forms == {<<" on the right of ", "right", "left">>,
                  <<" on the left of ", "left", "right">>,
                  <<" behind ", "behind", "front">>,
                  <<" in front of ", "front", "behind">>}
    IN \A X \in DOMAIN image_2ids : \A s \in DOMAIN image_2ids :
       \A f \in forms : \A Q \in {"some ", "all ", "Exactly one all "} :
         LET ext_X == Range(image_2ids[X])
             ext_s == Range(image_2ids[s])
             stands(x, y) == x \in Range(relationships[f[2]][y])
             has(x) == \E y \in ext_s : y \in Range(relationships[f[3]][x])
             satisfying == IF Q = "some " THEN {x \in ext_X : has(x)}
                           ELSE {x \in ext_X : \A y \in ext_s : stands(x, y)}
             tail == X \o f[1] \o Q \o s
         IN \A quantifier \in {"some ", "all "} :
              /\ ("Exactly one " \o quantifier \o tail) \in DOMAIN files
                   => Cardinality(satisfying) = 1
              /\ (quantifier \o tail) \in DOMAIN files
                   => Cardinality(satisfying) # 1

\* C29: every pair of the list add_ad_hoc_random_objects returns carries an
\* utterance no other pair of the list carries, so the count
\* render_ad_hoc_scene takes of the sampled utterance is 1, it never returns
\* (None, None), and the body of the `while obj_ind==None` loop of main never
\* runs: once render_ad_hoc_scene has written its line of the type file, the
\* placement is not entered again.
C29_DiscardUnreachable ==
  render.called /\ render.fn = "add_ad_hoc_random_objects" =>
    /\ render.type_txt # <<>> => pc \in {"rendered", "main_done"}
    /\ pc \in {"placed", "rendered", "main_done"} =>
         LET utterance_obj_pairs == adhoc.returned.value[2]
         IN \A j \in DOMAIN utterance_obj_pairs :
              UtteranceUses(utterance_obj_pairs, utterance_obj_pairs[j][2]) = 1
    /\ pc \in {"rendered", "main_done"} =>
         /\ render.result.count = 1
         /\ ~render.result.none
         /\ render.scene_file.written

\* a scene was rendered and main went on, although two of the candidate
\* pairs of the matrix carried the same utterance and were left out
C29_Witness ==
  /\ pc = "main_done"
  /\ render.fn = "add_ad_hoc_random_objects"
  /\ render.result.count = 1
  /\ Len(adhoc.utterance_obj_pairs) > Len(adhoc.returned.value[2])
  /\ \E j, k \in DOMAIN adhoc.utterance_obj_pairs :
       /\ j # k
       /\ adhoc.utterance_obj_pairs[j][2] = adhoc.utterance_obj_pairs[k][2]

\* C30, as stated: on a scene whose relation lists hold ids of objects only
\* and whose right and front lists are the inverses of its left and behind
\* lists, parse_scene does not raise, also when an attribute value is held by
\* exactly one object: every phase hands over to the next, and the call
\* returns with the intrinsic file written.
C30_CompletesOnWellFormedScenes ==
  LET in_range ==
        \A n \in DOMAIN Directions : \A i \in Ids :
          Range(relationships[Directions[n]][i]) \subseteq Ids
      inverse(d, e) ==
        \A i \in Ids : \A j \in Ids :
          (j \in Range(relationships[d][i])) <=> (i \in Range(relationships[e][j]))
      well_formed ==
        in_range /\ inverse("left", "right") /\ inverse("behind", "front")
  IN well_formed =>
       /\ pc # "raised"
       /\ pc = "structs" => RaisesIndexError = FALSE
       /\ pc = "primary_names" => RaisesKeyError = FALSE
       /\ pc = "done" => intrinsic.written

====
